---- MODULE Spec2Model ----
(***************************************************************************)
(* A model of testflo's runners: the in-process lifecycle                  *)
(* (TestRunner.run_testspec / run_test), the sequential runner             *)
(* (TestRunner.get_iter), the subprocess-isolation runners                 *)
(* (IsolatedTestRunner, IsolatedMPITestRunner) and the multiprocessing     *)
(* scheduler (ConcurrentTestRunner.run_concurrent_tests with worker).      *)
(*                                                                         *)
(* Specifications:                                                         *)
(*   Spec      the concurrent scheduler: one coordinator, num_procs workers*)
(*   FairSpec  Spec with weak fairness of the coordinator and each worker  *)
(*   SeqSpec   the generators that run one specification at a time         *)
(*   LifeSpec  one call of run_testspec or of Test.run                     *)
(*   SubSpec   one run of a spec in a child process                        *)
(*   PipeSpec  a chain of filters (filters.py) between source and consumer *)
(*   QueueSpec successive runs of Test._run_subproc sharing a result queue *)
(***************************************************************************)
EXTENDS Integers, Sequences, FiniteSets, TLC

\* ------------------------------------------------------------------ bounds
\* longest input stream
MaxSpecs == 3
\* largest worker count (options.num_procs); the scheduler needs at least 2
MaxProcs == 2
\* the readings of the clock are 1..MaxTick
MaxTick == 2
\* the return codes of a child process are -MaxExitCode..MaxExitCode
MaxExitCode == 45

\* ------------------------------------------------- the in-process lifecycle
\* What a callable does when called: returns, raises unittest.SkipTest,
\* raises any other exception.  "none" is an absent hook (getattr(..., None)).
Behaviours == {"ok", "skip", "fail"}
Hooks == Behaviours \cup {"none"}

\* What parse_test_path makes of a test spec:
\*   parse_error   get_module / getattr / the TypeError checks raise
\*   no_method     "<module>"             -> method None
\*   empty_method  "<module>:<testcase>"  -> testcase set, method ''
\*   method        "<module>:<testcase>.<method>"
\*   function      "<module>:<function>"  -> method is the function object
\*   test_result   the item of the stream is no string but a TestResult that
\*                 failed during discovery: testspec.strip() raises
Resolutions ==
    {"parse_error", "no_method", "empty_method", "method", "function", "test_result"}

\* A test spec, by what resolving and running it does.  n_procs: the
\* TestCase class has an N_PROCS attribute.
TestSpecs ==
    {[res |-> r, setup |-> "none", body |-> "ok", teardown |-> "none", n_procs |-> FALSE] :
        r \in {"parse_error", "no_method", "empty_method", "test_result"}}
    \cup
    [res : {"method", "function"}, setup : Hooks, body : Behaviours, teardown : Hooks,
     n_procs : {FALSE}]
    \cup
    [res : {"method"}, setup : {"none"}, body : Behaviours, teardown : {"none"},
     n_procs : {TRUE}]

\* runner.py try_call: the status of calling a method.
try_call(method) ==
    CASE method = "ok" -> "OK"
      [] method = "skip" -> "SKIP"
      [] OTHER -> "FAIL"

\* runner.py parse_test_path: does it raise, and which parts does it return.
parse_test_path(testspec) ==
    [raised |-> testspec.res \in {"parse_error", "test_result"},
     testcase |-> testspec.res \in {"empty_method", "method"},
     method |-> CASE testspec.res = "no_method" -> "None"
                  [] testspec.res = "empty_method" -> "empty"
                  [] testspec.res = "function" -> "funcobj"
                  [] OTHER -> "name"]

\* runner.py TestRunner.get_test_parent: testcase_class(methodName=method)
\* raises ValueError when the class has no attribute of that name.
get_test_parent_raises(parsed) ==
    parsed.testcase /\ parsed.method = "empty"

\* The outcome of a lifecycle call: a result was returned (raised = FALSE), or
\* an exception left the call.  calls lists the callables invoked.
Outcome(raised, status, times, calls) ==
    [raised |-> raised, status |-> status, times |-> times, calls |-> calls]

\* A variant of final_status in which the status of tearDown always wins.
final_status_teardown_wins(status, tdstatus) == tdstatus

\* runner.py 196-198: "if status == 'OK': status = tdstatus".
final_status(status, tdstatus) == IF status = "OK" THEN tdstatus ELSE status

\* runner.py TestRunner.run_test.
run_test(testspec, method) ==
    LET has_setup == testspec.setup # "none"
        s0 == IF has_setup THEN try_call(testspec.setup) ELSE "unset"
        setup_ok == ~has_setup \/ s0 = "OK"
        run_method == setup_ok
        run_td == setup_ok
        calls0 == IF has_setup THEN <<"setUp">> ELSE <<>>
        \* getattr(parent, method) with a function object as the name raises
        body_raises == run_method /\ method = "funcobj"
        s1 == IF run_method THEN try_call(testspec.body) ELSE s0
        calls1 == IF run_method THEN Append(calls0, "body") ELSE calls0
        do_td == testspec.teardown # "none" /\ run_td
        tdstatus == try_call(testspec.teardown)
        s2 == IF do_td THEN final_status(s1, tdstatus) ELSE s1
        calls2 == IF do_td THEN Append(calls1, "tearDown") ELSE calls1
    IN  IF body_raises
        THEN Outcome(TRUE, "none", "none", calls0)
        ELSE Outcome(FALSE, s2, "clock", calls2)

\* runner.py TestRunner.run_testspec.
run_testspec(test) ==
    LET parsed == parse_test_path(test)
    IN  IF parsed.raised
        THEN Outcome(FALSE, "FAIL", "clock", <<>>)
        ELSE IF parsed.method = "None"
        THEN Outcome(FALSE, "FAIL", "clock", <<>>)
        ELSE IF get_test_parent_raises(parsed)
        THEN Outcome(TRUE, "none", "none", <<>>)
        ELSE run_test(test, parsed.method)

\* sys.stdout and sys.stderr as [stdout |-> ..., stderr |-> ...].
\* A variant of leave_try without the finally clause: the streams are put
\* back only when the try block ran to its end.
leave_try_no_finally(old, inside, raised) == IF raised THEN inside ELSE old

\* runner.py 203-205, test.py 381-383: "finally: sys.stderr = old_err;
\* sys.stdout = old_out", whether the try block ended or raised.
leave_try(old, inside, raised) == old

\* runner.py 179-183, 203-205: the streams after run_test, which binds
\* sys.stdout to outstream and sys.stderr to errstream inside the try.
run_test_streams(old, raised) ==
    leave_try(old, [stdout |-> "outstream", stderr |-> "errstream"], raised)

\* runner.py 146-162: the streams after run_testspec, which touches them
\* only in run_test.
run_testspec_streams(test, old) ==
    LET parsed == parse_test_path(test)
    IN  IF parsed.raised \/ parsed.method = "None" \/ get_test_parent_raises(parsed)
        THEN old
        ELSE run_test_streams(old, run_test(test, parsed.method).raised)

\* A TestResult as the runners pass it on: the spec is its place in the input
\* stream; times is "zero" for TestResult(testspec, 0., 0., ...).
TestResult(testspec, times, status) ==
    [spec |-> testspec, times |-> times, status |-> status]

\* ------------------------------------------------------ the subprocess tier
\* runner.py exit_codes
ExitOK == 0
ExitSKIP == 42
ExitFAIL == 43

\* A variant of exit_codes in which SKIP has the code of FAIL.
exit_codes_skip_as_fail(status) ==
    CASE status = "OK" -> ExitOK
      [] status = "SKIP" -> ExitFAIL
      [] status = "FAIL" -> ExitFAIL

exit_codes(status) ==
    CASE status = "OK" -> ExitOK
      [] status = "SKIP" -> ExitSKIP
      [] status = "FAIL" -> ExitFAIL

\* A variant of status_of that takes an unknown return code for success.
status_of_unknown_ok(returncode) ==
    IF returncode = ExitSKIP THEN "SKIP"
    ELSE IF returncode = ExitFAIL THEN "FAIL"
    ELSE "OK"

\* runner.py 227-231, isolated.py 41-45, mpi.py 50-54: the status whose code
\* is the child's return code, FAIL when there is none.
status_of(returncode) ==
    IF returncode = ExitOK THEN "OK"
    ELSE IF returncode = ExitSKIP THEN "SKIP"
    ELSE IF returncode = ExitFAIL THEN "FAIL"
    ELSE "FAIL"

\* isolated.py __main__: the child runs the spec with TestRunner.get_iter and
\* exits with the code of the result's status, or with that of FAIL when
\* anything raised; it writes json.dumps(info) to stderr in either case.
isolated_main(test) ==
    LET r == run_testspec(test)
    IN  IF r.raised
        THEN [returncode |-> exit_codes("FAIL"), payload |-> "json"]
        ELSE [returncode |-> exit_codes(r.status), payload |-> "json"]

\* What can happen to a child besides running to its end:
\*   noise_text   something else wrote to its stderr first: no JSON text
\*   noise_json   something else wrote to its stderr after the payload
\*   crash        it was killed by a signal before it wrote anything
\*   spawn        subprocess.Popen raised
ChildFaults == {"none", "noise_text", "noise_json", "crash", "spawn"}

\* The child of a spec as the parent sees it: return code and stderr text.
Child(test, fault) ==
    CASE fault = "noise_text" -> [isolated_main(test) EXCEPT !.payload = "text"]
      [] fault = "noise_json" -> [isolated_main(test) EXCEPT !.payload = "broken_json"]
      [] fault = "crash" -> [returncode |-> -11, payload |-> "empty"]
      [] OTHER -> isolated_main(test)

\* What a parent makes of a child: raised, an exception was raised on the
\* way; else the times, status, error text and resource data of its result.
\* err_msg: "" none, "child" the text in the payload, "stderr" the child's
\* whole stderr, "traceback" the parent's own traceback.
SubResult(raised, times, status, err_msg, rdata) ==
    [raised |-> raised, times |-> times, status |-> status, err_msg |-> err_msg,
     rdata |-> rdata]

\* an exception on the parent's side
SubRaise == SubResult(TRUE, "none", "none", "none", "none")

\* A variant of except_fail without the except clause.
except_none(r) == r

\* runner.py 238-243, isolated.py 55-60, mpi.py 65-70, test.py 161-167:
\* "except: result = TestResult(testspec, 0., 0., 'FAIL', traceback...)";
\* in test.py the result is the Test itself, its times still 0.
except_fail(r) ==
    IF r.raised THEN SubResult(FALSE, "zero", "FAIL", "traceback", "empty") ELSE r

\* runner.py 215-236: after p.wait(), the status of the return code and the
\* child's stderr as the error text.
runner_isolated_result(c, spawned) ==
    except_fail(IF ~spawned
                THEN SubRaise
                ELSE SubResult(FALSE, "clock", status_of(c.returncode), "stderr", "empty"))

\* isolated.py 28-54: after p.wait(), "if s: info = json.loads(s)" and then
\* info.get(...): info is unbound when s is empty, json.loads raises when s
\* is no JSON text.
isolated_result(c, spawned) ==
    except_fail(IF ~spawned \/ c.payload # "json"
                THEN SubRaise
                ELSE SubResult(FALSE, "clock", status_of(c.returncode), "child", "child"))

\* mpi.py 22-63: info = {} to begin with, "raise Exception" without mpirun
\* or mpiexec, json.loads only of a text that starts with a brace.
mpi_result(c, spawned, launcher) ==
    except_fail(
        IF ~launcher \/ ~spawned \/ c.payload = "broken_json"
        THEN SubRaise
        ELSE IF c.payload = "json"
        THEN SubResult(FALSE, "clock", status_of(c.returncode), "child", "child")
        ELSE SubResult(FALSE, "clock", status_of(c.returncode), "", "empty"))

\* runner.py run_isolated(testspec): the status of the return code, the
\* child's stderr as error text; any exception gives a FAIL with times 0., 0.
runner_run_isolated(i, test, fault) ==
    LET r == runner_isolated_result(Child(test, fault), fault # "spawn")
    IN  TestResult(i, r.times, r.status)

\* isolated.py run_isolated(testspec, args): json.loads of the child's stderr
\* unless it is empty, then info.get(...) (info is unbound when it was empty).
run_isolated(i, test, fault) ==
    LET r == isolated_result(Child(test, fault), fault # "spawn")
    IN  TestResult(i, r.times, r.status)

\* mpirun.py, the child that run_mpi launches under mpirun: the same contract
\* as the child of the subprocess tier.
MPIChild(test, fault) == Child(test, fault)

\* mpi.py run_mpi(testspec, nprocs, args).  launcher: mpirun or mpiexec was
\* found.
run_mpi(i, test, fault, launcher) ==
    LET r == mpi_result(MPIChild(test, fault), fault # "spawn", launcher)
    IN  TestResult(i, r.times, r.status)

\* ------------------------------------------------------------------- state
VARIABLES
    runner,      \* which get_iter produces the result stream
    specs,       \* input_iter: the stream of test specs
    stop,        \* options.stop
    num_procs,   \* options.num_procs = len(self.procs)
    it,          \* how many specs it.next() has handed out
    task_queue,  \* self.task_queue
    done_queue,  \* self.done_queue
    numtests,    \* the coordinator's count of outstanding results
    pc,          \* where the generator stands
    idx,         \* how far the current for loop of the generator has come
    result,      \* the generator's local variable result
    yielded,     \* the results handed to the consumer, in order
    wpc,         \* per worker: "get" (blocked in test_queue.get), "run", "exited"
    wtask,       \* per worker: the testspec it is running (0: none)
    putLog,      \* history: every result put on done_queue, in order of the puts
    calls,       \* the callables the lifecycle has invoked, in order
    sys_stdout,  \* the object sys.stdout is bound to
    sys_stderr,  \* the object sys.stderr is bound to
    start_time,  \* the start_time of the result of the lifecycle call
    end_time,    \* its end_time
    tier,        \* which way Test.run went
    child,       \* the child process of an isolated run
    env,         \* what the call finds: the caller's streams, the options, the machine
    stages,      \* the filter generators between the source and the consumer
    outfile,     \* the files the filters write: quicktests.in, failtests.in
    active,      \* whose code runs: 0 the source, k the k-th filter, last the consumer
    signal,      \* what was handed to it: "next", "item", "end" or "none"
    cover        \* the coverage calls made, in order

vars == <<runner, specs, stop, num_procs, it, task_queue, done_queue, numtests,
          pc, idx, result, yielded, wpc, wtask, putLog, calls,
          sys_stdout, sys_stderr, start_time, end_time, tier, child, env,
          stages, outfile, active, signal, cover>>

\* the input stream, the options: nothing writes them
config == <<runner, specs, stop, num_procs>>
\* the state of the worker processes
workers == <<wpc, wtask>>
\* the state of a chain of filters
pipeline == <<stages, outfile, active, signal>>
\* what only a single lifecycle call writes
lifecycle == <<calls, sys_stdout, sys_stderr, start_time, end_time, tier, child, env>>
\* the pool of the concurrent runner, which the other runners do not have
pool == <<num_procs, task_queue, done_queue, numtests, idx, wpc, wtask, putLog>>

Streams(S) == UNION {[1..n -> S] : n \in 0..MaxSpecs}

NoResult == [spec |-> 0, times |-> "none", status |-> "none"]

Procs == 1..num_procs

\* ------------------------------------------- the concurrent scheduler
\* The specs fed to the scheduler: a test method that passes, one that fails,
\* and a test function, on which run_testspec raises.
SchedSpecs ==
    {t \in TestSpecs : /\ t.setup = "none" /\ t.teardown = "none"
                       /\ t.res \in {"method", "function"}
                       /\ t.res = "function" => t.body = "ok"
                       /\ t.body # "skip" /\ ~t.n_procs}

Task(i) == [stop |-> FALSE, spec |-> i]
STOP == [stop |-> TRUE, spec |-> 0]

\* ConcurrentTestRunner.__init__ with num_procs > 1: queues created, the
\* workers started; run_concurrent_tests entered (it = iter(input_iter),
\* numtests = 0).
Init ==
    /\ runner = "concurrent"
    /\ specs \in Streams(SchedSpecs)
    /\ stop \in BOOLEAN
    /\ num_procs \in 2..MaxProcs
    /\ it = 0
    /\ task_queue = <<>>
    /\ done_queue = <<>>
    /\ numtests = 0
    /\ pc = "fill"
    /\ idx = 0
    /\ result = NoResult
    /\ yielded = <<>>
    /\ wpc = [w \in Procs |-> "get"]
    /\ wtask = [w \in Procs |-> 0]
    /\ putLog = <<>>
    /\ calls = <<>>
    /\ sys_stdout = "stdout"
    /\ sys_stderr = "stderr"
    /\ start_time = 0
    /\ end_time = 0
    /\ tier = "none"
    /\ stages = <<>>
    /\ outfile = "none"
    /\ active = 0
    /\ signal = "none"
    /\ cover = <<>>
    /\ child = "none"
    /\ env = "none"

\* self.task_queue.put(item): the queue hands items out in the order of the puts
put_at_head(q, item) == <<item>> \o q
put(q, item) == Append(q, item)

\* lines 308-314: for proc in self.procs: task_queue.put(it.next()); numtests += 1
\* StopIteration skips the while loop; a completed for loop enters it.
FillStep(nprocs) ==
    /\ pc = "fill"
    /\ IF it < Len(specs)
       THEN /\ it' = it + 1
            /\ task_queue' = put(task_queue, Task(it + 1))
            /\ numtests' = numtests + 1
            /\ IF idx + 1 = nprocs
               THEN pc' = "get" /\ idx' = 0
               ELSE pc' = "fill" /\ idx' = idx + 1
       ELSE /\ pc' = "stop"
            /\ idx' = 0
            /\ UNCHANGED <<it, task_queue, numtests>>
    /\ UNCHANGED <<config, lifecycle, pipeline, cover, done_queue, result, yielded, workers, putLog>>

\* a fill loop that runs once more than there are workers
CoordFillOneMore == FillStep(num_procs + 1)

\* a fill loop that leaves one worker without a task
CoordFillOneLess == FillStep(num_procs - 1)

CoordFill == FillStep(num_procs)

\* a get that takes the newest result instead of the oldest
CoordGetNewest ==
    /\ pc = "get"
    /\ done_queue # <<>>
    /\ result' = done_queue[Len(done_queue)]
    /\ done_queue' = SubSeq(done_queue, 1, Len(done_queue) - 1)
    /\ pc' = "yield"
    /\ UNCHANGED <<config, lifecycle, pipeline, cover, it, task_queue, numtests, idx, yielded, workers, putLog>>

\* line 317: result = self.done_queue.get()   (blocks on an empty queue)
CoordGet ==
    /\ pc = "get"
    /\ done_queue # <<>>
    /\ result' = Head(done_queue)
    /\ done_queue' = Tail(done_queue)
    /\ pc' = "yield"
    /\ UNCHANGED <<config, lifecycle, pipeline, cover, it, task_queue, numtests, idx, yielded, workers, putLog>>

\* line 318: yield result
CoordYield ==
    /\ pc = "yield"
    /\ yielded' = Append(yielded, result)
    /\ pc' = "admit"
    /\ UNCHANGED <<config, lifecycle, pipeline, cover, it, task_queue, done_queue, numtests, idx, result,
                   workers, putLog>>

\* lines 319-325 and the loop test of line 316, run when the consumer asks for
\* the next result: numtests -= 1; break on stop and FAIL; put the next spec
\* (StopIteration leaves the loop); numtests += 1; while numtests.
AdmitStep(stopping) ==
    /\ pc = "admit"
    /\ IF stopping /\ result.status = "FAIL"
       THEN /\ numtests' = numtests - 1
            /\ pc' = "stop"
            /\ UNCHANGED <<it, task_queue>>
       ELSE IF it < Len(specs)
       THEN /\ it' = it + 1
            /\ task_queue' = put(task_queue, Task(it + 1))
            /\ numtests' = numtests
            /\ pc' = IF numtests' = 0 THEN "stop" ELSE "get"
       ELSE /\ numtests' = numtests - 1
            /\ pc' = "stop"
            /\ UNCHANGED <<it, task_queue>>
    /\ idx' = 0
    /\ UNCHANGED <<config, lifecycle, pipeline, cover, done_queue, result, yielded, workers, putLog>>

\* a loop that breaks on every FAIL, whatever options.stop
CoordAdmitAlwaysStop == AdmitStep(TRUE)

\* a loop that never breaks
CoordAdmitNeverStop == AdmitStep(FALSE)

CoordAdmit == AdmitStep(stop)

\* lines 327-328: for proc in self.procs: self.task_queue.put('STOP')
\* then line 330 evaluates range(numtests).
StopStep(nprocs) ==
    /\ pc = "stop"
    /\ task_queue' = put(task_queue, STOP)
    /\ IF idx + 1 = nprocs
       THEN /\ idx' = 0
            /\ pc' = IF numtests = 0 THEN "join" ELSE "drain_get"
       ELSE /\ idx' = idx + 1
            /\ pc' = "stop"
    /\ UNCHANGED <<config, lifecycle, pipeline, cover, it, done_queue, numtests, result, yielded, workers, putLog>>

\* one sentinel fewer than there are workers
CoordStopOneLess == StopStep(num_procs - 1)

CoordStop == StopStep(num_procs)

\* line 331: self.done_queue.get() of the drain loop
CoordDrainGet ==
    /\ pc = "drain_get"
    /\ done_queue # <<>>
    /\ result' = Head(done_queue)
    /\ done_queue' = Tail(done_queue)
    /\ pc' = "drain_yield"
    /\ UNCHANGED <<config, lifecycle, pipeline, cover, it, task_queue, numtests, idx, yielded, workers, putLog>>

\* line 331: the yield of the drain loop, and the loop's step
CoordDrainYield ==
    /\ pc = "drain_yield"
    /\ yielded' = Append(yielded, result)
    /\ IF idx + 1 = numtests
       THEN idx' = 0 /\ pc' = "join"
       ELSE idx' = idx + 1 /\ pc' = "drain_get"
    /\ UNCHANGED <<config, lifecycle, pipeline, cover, it, task_queue, done_queue, numtests, result, workers,
                   putLog>>

\* lines 333-334: for proc in self.procs: proc.join()
CoordJoin ==
    /\ pc = "join"
    /\ wpc[idx + 1] = "exited"
    /\ IF idx + 1 = num_procs
       THEN idx' = 0 /\ pc' = "done"
       ELSE idx' = idx + 1 /\ pc' = "join"
    /\ UNCHANGED <<config, lifecycle, pipeline, cover, it, task_queue, done_queue, numtests, result, yielded,
                   workers, putLog>>

\* a get that leaves the item on the queue
WorkerGetPeek(w) ==
    /\ wpc[w] = "get"
    /\ task_queue # <<>>
    /\ IF Head(task_queue).stop
       THEN /\ wpc' = [wpc EXCEPT ![w] = "exited"]
            /\ UNCHANGED wtask
       ELSE /\ wpc' = [wpc EXCEPT ![w] = "run"]
            /\ wtask' = [wtask EXCEPT ![w] = Head(task_queue).spec]
    /\ UNCHANGED <<config, lifecycle, pipeline, cover, it, task_queue, done_queue, numtests, pc,
                   idx, result, yielded, putLog>>

\* worker, line 115: for testspec in iter(test_queue.get, 'STOP')
WorkerGet(w) ==
    /\ wpc[w] = "get"
    /\ task_queue # <<>>
    /\ task_queue' = Tail(task_queue)
    /\ IF Head(task_queue).stop
       THEN /\ wpc' = [wpc EXCEPT ![w] = "exited"]
            /\ UNCHANGED wtask
       ELSE /\ wpc' = [wpc EXCEPT ![w] = "run"]
            /\ wtask' = [wtask EXCEPT ![w] = Head(task_queue).spec]
    /\ UNCHANGED <<config, lifecycle, pipeline, cover, it, done_queue, numtests, pc, idx, result, yielded, putLog>>

\* worker, lines 116-123: the result the worker puts for a testspec: that of
\* run_testspec, or a FAIL TestResult(testspec, 0., 0., ...) when it raised.
worker_result(testspec) ==
    LET r == run_testspec(specs[testspec])
    IN  IF r.raised
        THEN TestResult(testspec, "zero", "FAIL")
        ELSE TestResult(testspec, r.times, r.status)

\* a worker without the try/except: an exception of run_testspec ends it
WorkerRunNoExcept(w) ==
    /\ wpc[w] = "run"
    /\ IF run_testspec(specs[wtask[w]]).raised
       THEN /\ wpc' = [wpc EXCEPT ![w] = "exited"]
            /\ UNCHANGED <<done_queue, putLog>>
       ELSE /\ done_queue' = Append(done_queue, worker_result(wtask[w]))
            /\ putLog' = Append(putLog, worker_result(wtask[w]))
            /\ wpc' = [wpc EXCEPT ![w] = "get"]
    /\ wtask' = [wtask EXCEPT ![w] = 0]
    /\ UNCHANGED <<config, lifecycle, pipeline, cover, it, task_queue, numtests, pc, idx, result, yielded>>

\* worker, lines 116-123: run the testspec, put the result, go on with the loop
WorkerRun(w) ==
    /\ wpc[w] = "run"
    /\ done_queue' = Append(done_queue, worker_result(wtask[w]))
    /\ putLog' = Append(putLog, worker_result(wtask[w]))
    /\ wpc' = [wpc EXCEPT ![w] = "get"]
    /\ wtask' = [wtask EXCEPT ![w] = 0]
    /\ UNCHANGED <<config, lifecycle, pipeline, cover, it, task_queue, numtests, pc, idx, result, yielded>>

Coordinator ==
    \/ CoordFill
    \/ CoordGet
    \/ CoordYield
    \/ CoordAdmit
    \/ CoordStop
    \/ CoordDrainGet
    \/ CoordDrainYield
    \/ CoordJoin

Worker(w) ==
    /\ w \in Procs
    /\ \/ WorkerGet(w)
       \/ WorkerRun(w)

Next ==
    \/ Coordinator
    \/ \E w \in Procs : Worker(w)

Spec == Init /\ [][Next]_vars

\* The operating system runs every process that is not blocked; the consumer
\* keeps pulling, so the generator is resumed after every yield.
FairSpec ==
    /\ Spec
    /\ WF_vars(Coordinator)
    /\ \A w \in 1..MaxProcs : WF_vars(Worker(w))

\* ------------------------------------------------ the scheduler's claims
\* what the coordinator has taken from done_queue, in order
Taken ==
    IF pc \in {"yield", "drain_yield"} THEN Append(yielded, result) ELSE yielded

Received == Len(putLog) - Len(done_queue)

\* put on the task queue, result not yet taken from the done queue
InFlight == it - Received

Statuses(q) == {q[k].status : k \in 1..Len(q)}

YieldedOnce(i) == Cardinality({k \in 1..Len(yielded) : yielded[k].spec = i}) = 1

\* C1: without stop-on-failure, when run_concurrent_tests finishes it has
\* yielded exactly N results, one for each of the N specs of the input stream.
C1_YieldsEveryResult ==
    (pc = "done" /\ ~stop) =>
        /\ Len(yielded) = Len(specs)
        /\ \A i \in 1..Len(specs) : YieldedOnce(i)

C1_Witness ==
    /\ pc = "done" /\ ~stop
    /\ Len(specs) > num_procs
    /\ "FAIL" \in Statuses(yielded)
    /\ Len(yielded) = Len(specs)

\* C2: at most num_procs specs are in flight (put on the task queue, result
\* not yet taken from the done queue by the coordinator).
C2_AtMostCInFlight == InFlight <= num_procs

C2_Witness == InFlight = num_procs /\ pc = "get" /\ it > num_procs

\* the specs waiting on a task queue
QueuedSpecs(q) == {q[k].spec : k \in {j \in 1..Len(q) : ~q[j].stop}}

\* with stop-on-failure the finished scheduler has yielded the result of every
\* spec it admitted, once
C3_FinalYield ==
    (pc = "done" /\ stop) =>
        /\ Len(yielded) = it
        /\ \A i \in 1..it : YieldedOnce(i)

\* C3: with stop-on-failure, once the coordinator has taken a FAIL result it
\* puts no further spec on the task queue, and when it finishes it has yielded
\* the result of every spec it admitted, once: the FAIL and all in flight then.
C3_StopOnFailure ==
    /\ []C3_FinalYield
    /\ [][(stop /\ "FAIL" \in Statuses(Taken)) =>
            (it' = it /\ QueuedSpecs(task_queue') \subseteq QueuedSpecs(task_queue))]_vars

C3_Witness ==
    /\ pc = "done" /\ stop
    /\ it < Len(specs)
    /\ Len(yielded) = it
    /\ \E k \in 1..(Len(yielded) - 1) : yielded[k].status = "FAIL"

Exited == {w \in Procs : wpc[w] = "exited"}
StopsQueued == Cardinality({k \in 1..Len(task_queue) : task_queue[k].stop})
\* a worker leaves its loop only by taking a STOP
StopsSent == StopsQueued + Cardinality(Exited)

\* when the generator has returned (the join loop is behind it), num_procs
\* sentinels have been sent and every worker has left its loop
C6_Shutdown ==
    (pc = "done") =>
        /\ StopsSent = num_procs
        /\ Exited = Procs

\* C6: under fair scheduling the stream ends, and then one STOP has been sent
\* per worker, every worker has left its loop and all have been joined.
C6_Terminates == <>(pc = "done") /\ []C6_Shutdown

C6_Witness ==
    /\ pc = "done" /\ stop
    /\ Exited = Procs
    /\ Len(yielded) < Len(specs)

Running == {w \in Procs : wpc[w] = "run"}
Arriving == Cardinality(QueuedSpecs(task_queue)) + Cardinality(Running) + Len(done_queue)
Held == IF pc \in {"yield", "admit", "drain_yield"} THEN 1 ELSE 0
Expected ==
    CASE pc \in {"drain_get", "drain_yield"} -> numtests - idx
      [] pc \in {"join", "done"} -> 0
      [] OTHER -> numtests

\* the coordinator expects as many results as are still to arrive
C7_CountMatches == Expected = Arriving + Held

\* C7: a worker whose run_testspec raises puts a FAIL result for that spec
\* and returns to the task queue, so numtests stays the number of results
\* that are still to arrive.
C7_WorkerSurvives ==
    /\ []C7_CountMatches
    /\ [][\A w \in Procs :
            (wpc[w] = "run" /\ run_testspec(specs[wtask[w]]).raised) =>
                \/ wpc'[w] = "run"
                \/ /\ wpc'[w] = "get"
                   /\ done_queue' = Append(done_queue, TestResult(wtask[w], "zero", "FAIL"))]_vars

C7_Witness ==
    /\ \E k \in 1..Len(putLog) : putLog[k].times = "zero"
    /\ Exited = {}
    /\ Running # {}
    /\ Len(putLog) >= num_procs

\* what was taken and what waits is what was put, in that order
C8_InPutOrder ==
    Taken \o done_queue = putLog

\* C8: results are yielded in the order of the puts on the done queue, each
\* before the next spec is admitted; that order need not be the submission
\* order.
C8_CompletionOrder ==
    /\ []C8_InPutOrder
    /\ [][(it' # it /\ pc # "fill") => Len(yielded) = Received]_vars

C8_Witness ==
    \E k \in 1..(Len(yielded) - 1) : yielded[k].spec > yielded[k + 1].spec

\* ------------------------------- the runners that run one spec at a time
\* The items fed to these runners: test methods that pass or fail, with and
\* without N_PROCS, a spec that does not resolve, a test function (on which
\* run_testspec raises), a TestResult that failed during discovery.
SeqSpecs ==
    {t \in TestSpecs : /\ t.setup = "none" /\ t.teardown = "none"
                       /\ t.res \in {"method", "function", "parse_error", "test_result"}
                       /\ t.body # "skip"
                       /\ (t.n_procs \/ t.res = "function") => t.body = "ok"}

\* sequential       runner.py TestRunner.get_iter
\* isolated_runner  runner.py IsolatedTestRunner.run_isolated_tests
\* isolated         isolated.py IsolatedTestRunner.run_isolated_tests
\* mpi              mpi.py IsolatedMPITestRunner.run_isolated_tests
SeqRunners == {"sequential", "isolated_runner", "isolated", "mpi"}

SeqInit ==
    /\ runner \in SeqRunners
    /\ specs \in Streams(SeqSpecs)
    /\ stop \in BOOLEAN
    /\ num_procs = 1
    /\ it = 0
    /\ task_queue = <<>>
    /\ done_queue = <<>>
    /\ numtests = 0
    /\ pc = "next"
    /\ idx = 0
    /\ result = NoResult
    /\ yielded = <<>>
    /\ wpc = <<>>
    /\ wtask = <<>>
    /\ putLog = <<>>
    /\ calls = <<>>
    /\ sys_stdout = "stdout"
    /\ sys_stderr = "stderr"
    /\ start_time = 0
    /\ end_time = 0
    /\ tier = "none"
    /\ stages = <<>>
    /\ outfile = "none"
    /\ active = 0
    /\ signal = "none"
    /\ cover = <<>>
    /\ child = "none"
    /\ env = "none"

\* The for loop of a generator takes the next item: the stream has ended
\* (the generator returns), or running the item gave a result to yield, or it
\* raised and the exception leaves the generator.
Advance(outcome) ==
    /\ pc = "next"
    /\ IF it = Len(specs)
       THEN pc' = "done" /\ UNCHANGED <<it, result>>
       ELSE /\ it' = it + 1
            /\ IF outcome.raised
               THEN pc' = "raised" /\ UNCHANGED result
               ELSE pc' = "emit" /\ result' = outcome.result
    /\ UNCHANGED <<runner, specs, stop, pool, pipeline, cover, yielded, lifecycle>>

Returned(r) == [raised |-> FALSE, result |-> r]
Raised == [raised |-> TRUE, result |-> NoResult]

\* a TestResult of the input stream, passed on as it is
Passed(i) == TestResult(i, "zero", "FAIL")

\* runner.py 134: result = self.run_testspec(test)
get_iter_body(i, test) ==
    IF run_testspec(test).raised
    THEN Raised
    ELSE Returned(TestResult(i, run_testspec(test).times, run_testspec(test).status))

\* runner.py 133-134: for test in input_iter: result = self.run_testspec(test)
GetIterNext ==
    /\ runner = "sequential"
    /\ Advance(get_iter_body(it + 1, specs[it + 1]))

\* runner.py 269-270: for testspec in input_iter: result = run_isolated(testspec)
IsolatedRunnerNext ==
    /\ runner = "isolated_runner"
    /\ \E fault \in ChildFaults :
          Advance(Returned(runner_run_isolated(it + 1, specs[it + 1], fault)))

\* isolated.py 87-92: a TestResult is passed on, a spec is run isolated
isolated_body(i, test, fault) ==
    IF test.res = "test_result"
    THEN Returned(Passed(i))
    ELSE Returned(run_isolated(i, test, fault))

\* isolated.py 86-92
IsolatedNext ==
    /\ runner = "isolated"
    /\ \E fault \in ChildFaults :
          Advance(isolated_body(it + 1, specs[it + 1], fault))

\* mpi.py 85-96: parse_test_path is called in the generator itself
mpi_body(i, test, fault, launcher) ==
    IF test.res = "test_result"
    THEN Returned(Passed(i))
    ELSE IF parse_test_path(test).raised
    THEN Raised
    ELSE IF parse_test_path(test).testcase /\ test.n_procs
    THEN Returned(run_mpi(i, test, fault, launcher))
    ELSE Returned(run_isolated(i, test, fault))

\* mpi.py 84-96
MPINext ==
    /\ runner = "mpi"
    /\ \E fault \in ChildFaults, launcher \in BOOLEAN :
          Advance(mpi_body(it + 1, specs[it + 1], fault, launcher))

\* the yield of each of the four generators
Emit ==
    /\ pc = "emit"
    /\ yielded' = Append(yielded, result)
    /\ pc' = "resume"
    /\ UNCHANGED <<runner, specs, stop, pool, pipeline, cover, it, result, lifecycle>>

\* runner.py 136-137, when the consumer asks for the next result:
\* if self.stop and result.status == 'FAIL': break
GetIterResume ==
    /\ pc = "resume"
    /\ runner = "sequential"
    /\ pc' = IF stop /\ result.status = "FAIL" THEN "done" ELSE "next"
    /\ UNCHANGED <<runner, specs, stop, pool, pipeline, cover, it, result, yielded, lifecycle>>

\* runner.py 269-271, isolated.py 86-92, mpi.py 84-96: the loop goes on
IsolatedResume ==
    /\ pc = "resume"
    /\ runner \in {"isolated_runner", "isolated", "mpi"}
    /\ pc' = "next"
    /\ UNCHANGED <<runner, specs, stop, pool, pipeline, cover, it, result, yielded, lifecycle>>

SeqNext ==
    \/ GetIterNext
    \/ IsolatedRunnerNext
    \/ IsolatedNext
    \/ MPINext
    \/ Emit
    \/ GetIterResume
    \/ IsolatedResume

SeqSpec == SeqInit /\ [][SeqNext]_vars

\* ------------------------------------------------- test.py: Test.run
\* The objects sys.stdout and sys.stderr may be bound to when the call starts.
CallerStreams == {"console", "redirected"}
\* time.time(), time.perf_counter(): a later reading is not less.
Clock == 1..MaxTick

\* What a test function does when called: as Behaviours, or it raises
\* KeyboardInterrupt, which is no Exception.
Bodies == Behaviours \cup {"interrupt"}
\* What tearDownClass and tearDownModule do when called.
Teardowns == {"none", "ok", "fail"}
\* The values of N_PROCS in the model.
NProcs == {0, 2}

\* What _parse_test_path makes of the spec of a Test:
\*   parse_error  get_module / getattr / the TypeError checks raise
\*   no_func      "<module>"             -> funcname None
\*   empty_func   "<module>:<testcase>"  -> tcasename set, funcname ''
\*   method       "<module>:<testcase>.<method>"
\*   function     "<module>:<function>"
\* A hook is "none" when its _fixture_first/_last flag is off or the module or
\* class lacks the attribute.  skip_class: the class has __unittest_skip__.
\* nprocs, isolated: the attributes N_PROCS and ISOLATED of the class.
PlainTest(r) ==
    [res |-> r, mod_setup |-> "none", tcase_setup |-> "none", body |-> "ok",
     tcase_teardown |-> "none", mod_teardown |-> "none", skip_class |-> FALSE,
     nprocs |-> 0, isolated |-> FALSE]

\* The tests whose hooks and bodies vary.
HookTests ==
    [res : {"method"}, mod_setup : Hooks, tcase_setup : Hooks, body : Bodies,
     tcase_teardown : Teardowns, mod_teardown : Teardowns, skip_class : BOOLEAN,
     nprocs : {0}, isolated : {FALSE}]
    \cup
    [res : {"function"}, mod_setup : Hooks, tcase_setup : {"none"}, body : Bodies,
     tcase_teardown : {"none"}, mod_teardown : Teardowns, skip_class : {FALSE},
     nprocs : {0}, isolated : {FALSE}]

\* The tests whose N_PROCS and ISOLATED vary.
TierTests ==
    [res : {"method"}, mod_setup : {"none"}, tcase_setup : {"none"}, body : Behaviours,
     tcase_teardown : {"none"}, mod_teardown : {"none"}, skip_class : {FALSE},
     nprocs : NProcs, isolated : BOOLEAN]
    \cup
    {[PlainTest("function") EXCEPT !.body = b] : b \in Behaviours}

Tests ==
    {PlainTest(r) : r \in {"parse_error", "no_func", "empty_func"}}
        \cup HookTests \cup TierTests

\* What Test.run finds: the streams of the caller, options.nompi,
\* options.isolated, whether mpi4py can be imported, whether a queue was
\* passed, whether mpirun_exe is not None, whether options.timeout is set.
PlainEnvs ==
    [stdout : CallerStreams, stderr : CallerStreams, nompi : {FALSE},
     isolated : {FALSE}, mpi4py : {FALSE}, queue : {FALSE}, mpirun_exe : {FALSE},
     timeout : {FALSE}]
TierEnvs ==
    [stdout : {"console"}, stderr : {"console"}, nompi : BOOLEAN, isolated : BOOLEAN,
     mpi4py : BOOLEAN, queue : BOOLEAN, mpirun_exe : BOOLEAN, timeout : BOOLEAN]

\* test.py _try_call: the status of calling func (KeyboardInterrupt passes
\* through it).
_try_call(func) ==
    CASE func = "ok" -> "OK"
      [] func = "skip" -> "SKIP"
      [] OTHER -> "FAIL"

\* test.py 112-134 _get_test_info: the status the constructor leaves.
_get_test_info(t) ==
    IF t.res \in {"parse_error", "no_func"} THEN "FAIL" ELSE "None"

\* A variant of run_tier that falls back to the subprocess when MPI is
\* missing and looks at the ISOLATED flag of the test first.
run_tier_isolated_fallback(t, e) ==
    IF t.isolated THEN "isolated"
    ELSE IF t.nprocs > 0
    THEN IF e.mpi4py /\ ~e.nompi THEN "mpi" ELSE "isolated"
    ELSE "inprocess"

\* test.py 229-239: which way Test.run goes for a test whose status is None.
run_tier(t, e) ==
    IF t.nprocs > 0 /\ ~e.nompi
    THEN IF e.mpi4py /\ e.queue THEN "mpi" ELSE "inprocess"
    ELSE IF e.isolated THEN "isolated" ELSE "inprocess"

\* The outcome of Test.run: as Outcome; blocked: the call never returns.
\* times: "equal" start_time = end_time = one reading of the clock, "clock"
\* two readings, "zero" both still 0 as __init__ left them.
TestOutcome(raised, blocked, status, times, called) ==
    [raised |-> raised, blocked |-> blocked, status |-> status, times |-> times,
     calls |-> called]

\* test.py 241-387: Test.run in this process.
run_inprocess(t) ==
    LET c0 == IF t.mod_setup # "none" THEN <<"setUpModule">> ELSE <<>>
        st0 == IF t.mod_setup # "none" THEN _try_call(t.mod_setup) ELSE "unset"
        done0 == t.mod_setup # "none" /\ st0 # "OK"
        \* "don't do teardown if setup failed"
        mod_teardown == IF done0 THEN "none" ELSE t.mod_teardown
        skipped == ~done0 /\ t.skip_class
        st1 == IF skipped THEN "SKIP" ELSE st0
        done1 == done0 \/ skipped
        tcase_setup == IF skipped THEN "none" ELSE t.tcase_setup
        tcase_teardown0 == IF skipped THEN "none" ELSE t.tcase_teardown
        \* testcase is None: "if not done: _try_call(getattr(parent, funcname))"
        f_calls == IF done1 THEN c0 ELSE Append(c0, "body")
        f_raises == ~done1 /\ t.body = "interrupt"
        f_status == IF done1 THEN st1 ELSE _try_call(t.body)
        \* else: tcase_setup, then parent.run(result) whatever done is; unittest
        \* runs the method unless the class is skipped
        c1 == IF tcase_setup # "none" THEN Append(c0, "setUpClass") ELSE c0
        st2 == IF tcase_setup # "none" THEN _try_call(tcase_setup) ELSE st1
        tcase_teardown == IF tcase_setup # "none" /\ st2 # "OK"
                          THEN "none" ELSE tcase_teardown0
        m_calls == IF t.skip_class THEN c1 ELSE Append(c1, "body")
        m_raises == ~t.skip_class /\ t.body = "interrupt"
        m_status == IF t.skip_class THEN "SKIP" ELSE _try_call(t.body)
        is_func == t.res = "function"
        c3 == IF is_func THEN f_calls ELSE m_calls
        status == IF is_func THEN f_status ELSE m_status
        c4 == IF ~is_func /\ tcase_teardown # "none"
              THEN Append(c3, "tearDownClass") ELSE c3
        c5 == IF mod_teardown # "none" THEN Append(c4, "tearDownModule") ELSE c4
    IN  IF t.res = "empty_func"
        \* testcase(methodName='') raises before "subs = []"; testcontext
        \* swallows that and "if subs:" raises UnboundLocalError
        THEN TestOutcome(TRUE, FALSE, "none", "none", <<>>)
        ELSE IF (is_func /\ f_raises) \/ (~is_func /\ m_raises)
        THEN TestOutcome(TRUE, FALSE, "none", "none", c3)
        ELSE TestOutcome(FALSE, FALSE, status, "clock", c5)

\* test.py 282-286, 381-383: the streams after run_inprocess; the try block
\* is entered unless the exception comes before it.
run_inprocess_streams(t, old) ==
    IF t.res = "empty_func"
    THEN old
    ELSE leave_try(old, [stdout |-> "outstream", stderr |-> "errstream"],
                   run_inprocess(t).raised)

\* How the child process of _run_subproc ends: subprocess.run raises OSError,
\* the child never exits, it exits with a returncode other than 0, or it exits
\* with 0 having put its Test with the given status on the queue.
\* "silent": it exits with 0 and has put nothing on the queue.
SubprocEnds == {"spawn_error", "never", "nonzero", "silent", "OK", "SKIP", "FAIL"}

\* test.py 136-169 _run_subproc, called by _run_isolated (171-193) and
\* _run_mpi (195-221).  add_queue_to_env(None) raises; subprocess.run with
\* timeout kills a child that has not exited and raises TimeoutExpired,
\* without it waits for the child.
_run_subproc(e, end) ==
    IF ~e.queue \/ end = "spawn_error" \/ end = "nonzero"
    THEN TestOutcome(FALSE, FALSE, "FAIL", "zero", <<>>)
    ELSE IF end = "never"
    THEN IF e.timeout
         THEN TestOutcome(FALSE, FALSE, "FAIL", "zero", <<>>)
         ELSE TestOutcome(FALSE, TRUE, "none", "none", <<>>)
    ELSE IF end = "silent"
    \* queue.get() has no timeout
    THEN TestOutcome(FALSE, TRUE, "none", "none", <<>>)
    ELSE TestOutcome(FALSE, FALSE, end, "clock", <<>>)

\* test.py 171-193.
_run_isolated(e, end) == _run_subproc(e, end)

\* test.py 195-221: "if mpirun_exe is None: raise Exception(...)".
_run_mpi(e, end) ==
    IF ~e.mpirun_exe
    THEN TestOutcome(FALSE, FALSE, "FAIL", "zero", <<>>)
    ELSE _run_subproc(e, end)

\* test.py 223-387 Test.run.
Test_run(t, e, end) ==
    IF _get_test_info(t) # "None"
    THEN TestOutcome(FALSE, FALSE, _get_test_info(t), "equal", <<>>)
    ELSE CASE run_tier(t, e) = "mpi" -> _run_mpi(e, end)
           [] run_tier(t, e) = "isolated" -> _run_isolated(e, end)
           [] OTHER -> run_inprocess(t)

\* ------------------------------------------------- one lifecycle call
LifeInit ==
    /\ runner \in {"lifecycle", "test"}
    /\ specs \in IF runner = "lifecycle"
                THEN {<<t>> : t \in TestSpecs}
                ELSE {<<t>> : t \in Tests}
    /\ stop = FALSE
    /\ num_procs = 1
    /\ it = 0
    /\ task_queue = <<>>
    /\ done_queue = <<>>
    /\ numtests = 0
    /\ pc = "call"
    /\ idx = 0
    /\ result = NoResult
    /\ yielded = <<>>
    /\ wpc = <<>>
    /\ wtask = <<>>
    /\ putLog = <<>>
    /\ calls = <<>>
    /\ env \in IF runner = "lifecycle"
              THEN [stdout : CallerStreams, stderr : CallerStreams]
              ELSE IF specs[1] \in TierTests THEN TierEnvs ELSE PlainEnvs
    /\ sys_stdout = env.stdout
    /\ sys_stderr = env.stderr
    /\ start_time = 0
    /\ end_time = 0
    /\ tier = "none"
    /\ stages = <<>>
    /\ outfile = "none"
    /\ active = 0
    /\ signal = "none"
    /\ cover = <<>>
    /\ child = "none"

\* runner.py 146-207: one call self.run_testspec(test), which returns a
\* TestResult or lets an exception out.  t0 is the reading of time.time() at
\* line 150 or 165, t1 the one that makes the end_time of the TestResult.
RunTestspec ==
    /\ pc = "call"
    /\ runner = "lifecycle"
    /\ \E t0 \in Clock, t1 \in Clock :
        /\ t0 <= t1
        /\ LET r == run_testspec(specs[1])
               after == run_testspec_streams(specs[1],
                            [stdout |-> sys_stdout, stderr |-> sys_stderr])
           IN  /\ calls' = r.calls
               /\ sys_stdout' = after.stdout
               /\ sys_stderr' = after.stderr
               /\ IF r.raised
                  THEN /\ pc' = "raised"
                       /\ UNCHANGED <<result, start_time, end_time>>
                  ELSE /\ pc' = "returned"
                       /\ result' = TestResult(1, r.times, r.status)
                       /\ start_time' = t0
                       /\ end_time' = t1
    /\ UNCHANGED <<runner, specs, stop, pool, pipeline, cover, it, yielded, tier, child, env>>

\* The start_time and end_time of a result, t0 and t1 being two readings of
\* the clock, t0 the earlier.
stamps(times, t0, t1) ==
    CASE times = "zero" -> <<0, 0>>
      [] times = "equal" -> <<t0, t0>>
      [] OTHER -> <<t0, t1>>

\* test.py 288: the coverage calls of Test.run in this process, in order.
\* start_coverage() is the first call inside the try block; the block and its
\* finally clause (282-383) make no other coverage call.
run_inprocess_cover(t) ==
    IF t.res = "empty_func" THEN <<>> ELSE <<"start_coverage">>

\* test.py 223-387: one call test.run(queue), which returns the Test,
\* lets an exception out, or waits for ever for its child process.
TestRun ==
    /\ pc = "call"
    /\ runner = "test"
    /\ \E end \in SubprocEnds, t0 \in Clock, t1 \in Clock :
        /\ t0 <= t1
        /\ LET t == specs[1]
               r == Test_run(t, env, end)
               goes == IF _get_test_info(t) # "None" THEN "none" ELSE run_tier(t, env)
               old == [stdout |-> sys_stdout, stderr |-> sys_stderr]
               after == IF goes = "inprocess" THEN run_inprocess_streams(t, old) ELSE old
           IN  /\ tier' = goes
               /\ calls' = r.calls
               /\ cover' = IF goes = "inprocess" THEN run_inprocess_cover(t) ELSE <<>>
               /\ sys_stdout' = after.stdout
               /\ sys_stderr' = after.stderr
               /\ IF r.raised \/ r.blocked
                  THEN /\ pc' = IF r.raised THEN "raised" ELSE "blocked"
                       /\ UNCHANGED <<result, start_time, end_time>>
                  ELSE /\ pc' = "returned"
                       /\ result' = TestResult(1, r.times, r.status)
                       /\ start_time' = stamps(r.times, t0, t1)[1]
                       /\ end_time' = stamps(r.times, t0, t1)[2]
    /\ UNCHANGED <<runner, specs, stop, pool, pipeline, it, yielded, child, env>>

LifeNext ==
    \/ RunTestspec
    \/ TestRun

LifeSpec == LifeInit /\ [][LifeNext]_vars

\* ------------------------------------------------- one isolated run
\* The functions that run one spec in a child process: run_isolated of
\* runner.py and of isolated.py, run_mpi of mpi.py, Test._run_isolated and
\* Test._run_mpi of test.py.
SubTiers == {"runner_isolated", "isolated", "mpi", "test_isolated", "test_mpi"}
TestTiers == {"test_isolated", "test_mpi"}
MPITiers == {"mpi", "test_mpi"}

ExitCodes == (0 - MaxExitCode)..MaxExitCode
\* What the parent reads from the child's stderr: the JSON text of info, a
\* text that does not start with a brace, one that does but is no JSON text,
\* nothing.
Payloads == {"json", "text", "broken_json", "empty"}

\* The specs the children of the model run.
SubUnits ==
    {u \in TestSpecs : /\ u.res \in {"method", "function", "parse_error"}
                       /\ u.setup = "none" /\ u.teardown = "none" /\ ~u.n_procs}
PlainUnit == [res |-> "method", setup |-> "none", body |-> "ok", teardown |-> "none",
              n_procs |-> FALSE]

\* isolated.py 101-112: the status the spec ends with in the child ("none"
\* when run_testspec raises there).
unit_status(u) ==
    LET r == run_testspec(u) IN IF r.raised THEN "none" ELSE r.status

\* A child process: what goes wrong with it (as ChildFaults; "hang": it never
\* exits; "exit": it exits on some other way with some return code), its
\* return code, its stderr, the status its spec ended with; its state is
\* unborn, running, exited or killed.
ChildProcess(fault, returncode, payload, status) ==
    [fault |-> fault, returncode |-> returncode, payload |-> payload,
     status |-> status, state |-> "unborn"]

\* isolated.py __main__ (and mpirun.py): the child of spec u.
ChildOf(u, fault) ==
    LET c == Child(u, fault)
    IN  ChildProcess(fault, c.returncode, c.payload,
                     IF fault = "crash" THEN "none" ELSE unit_status(u))

\* isolatedrun.py 29-40: the child of Test._run_subproc puts its Test on the
\* queue and ends with return code 0.
TestChildren ==
    {ChildProcess("none", 0, "empty", st) : st \in {"OK", "SKIP", "FAIL"}}
    \cup {ChildProcess(f, 0, "empty", "none") : f \in {"spawn", "hang"}}
    \cup {ChildProcess("exit", c, "empty", "none") : c \in ExitCodes}

\* test.py 149-160: how _run_subproc sees the child end.
end_of(c) ==
    CASE c.fault = "spawn" -> "spawn_error"
      [] c.fault = "hang" -> "never"
      [] c.returncode # 0 -> "nonzero"
      [] c.status = "none" -> "silent"
      [] OTHER -> c.status

\* options.timeout reaches subprocess.run in test.py 150-151; the Popen /
\* p.wait() of runner.py 223-224, isolated.py 37-38 and mpi.py 46-47 has none.
timeout_armed(t, e) == t \in TestTiers /\ e.timeout

\* test.py 171-221: what _run_isolated or _run_mpi makes of the child c.
test_tier_outcome(t, c, e) ==
    IF t = "test_mpi"
    THEN _run_mpi([e EXCEPT !.mpirun_exe = e.launcher], end_of(c))
    ELSE _run_isolated(e, end_of(c))

\* What the tier t returns for the child c.
tier_result(t, c, e) ==
    CASE t = "runner_isolated" -> runner_isolated_result(c, c.fault # "spawn")
      [] t = "isolated" -> isolated_result(c, c.fault # "spawn")
      [] t = "mpi" -> mpi_result(c, c.fault # "spawn", e.launcher)
      [] OTHER -> LET o == test_tier_outcome(t, c, e)
                  IN  SubResult(o.raised, o.times, o.status, "none", "none")

\* test.py 160: queue.get() never returns.
tier_blocks(t, c, e) == t \in TestTiers /\ test_tier_outcome(t, c, e).blocked

SubInit ==
    /\ runner \in SubTiers
    /\ \/ /\ runner \notin TestTiers
          /\ specs \in {<<u>> : u \in SubUnits}
          /\ child \in {ChildOf(specs[1], f) : f \in ChildFaults \cup {"hang"}}
       \/ /\ runner \notin TestTiers
          /\ specs = <<PlainUnit>>
          /\ child \in {ChildProcess("exit", c, p, "none") : c \in ExitCodes, p \in Payloads}
       \/ /\ runner \in TestTiers
          /\ specs = <<PlainUnit>>
          /\ child \in TestChildren
    /\ env \in [launcher : IF runner \in MPITiers THEN BOOLEAN ELSE {TRUE},
                queue : IF runner \in TestTiers THEN BOOLEAN ELSE {TRUE},
                timeout : IF runner \in TestTiers THEN BOOLEAN ELSE {FALSE},
                mpirun_exe : {TRUE}]
    /\ stop = FALSE
    /\ num_procs = 1
    /\ it = 0
    /\ task_queue = <<>>
    /\ done_queue = <<>>
    /\ numtests = 0
    /\ pc = "start"
    /\ idx = 0
    /\ result = NoResult
    /\ yielded = <<>>
    /\ wpc = <<>>
    /\ wtask = <<>>
    /\ putLog = <<>>
    /\ calls = <<>>
    /\ sys_stdout = "stdout"
    /\ sys_stderr = "stderr"
    /\ start_time = 0
    /\ end_time = 0
    /\ tier = "none"
    /\ stages = <<>>
    /\ outfile = "none"
    /\ active = 0
    /\ signal = "none"
    /\ cover = <<>>

\* the parent's step from pc to pc' with the result of the tier
Return ==
    LET r == tier_result(runner, child, env)
    IN  /\ pc' = IF r.raised THEN "raised"
                 ELSE IF tier_blocks(runner, child, env) THEN "blocked" ELSE "returned"
        /\ result' = r

\* runner.py 223, isolated.py 37, mpi.py 46, test.py 141-151: the parent
\* starts the child, unless the launcher is missing, the queue cannot be
\* put into the environment or Popen raises.
Spawn ==
    /\ pc = "start"
    /\ IF child.fault = "spawn" \/ ~env.launcher \/ ~env.queue
       THEN Return /\ UNCHANGED child
       ELSE /\ pc' = "wait"
            /\ child' = [child EXCEPT !.state = "running"]
            /\ UNCHANGED result
    /\ UNCHANGED <<runner, specs, stop, pool, pipeline, cover, it, yielded, calls, sys_stdout,
                   sys_stderr, start_time, end_time, tier, env>>

\* The coverage calls a child has made when it exits.  isolated.py 114 calls
\* save_coverage() at the end of its try block, so not when anything raised
\* before; isolatedrun.py 42-43 calls cov.save() in its finally clause.  A
\* child killed by a signal saves nothing; of a child that exits some other
\* way nothing is known.
child_cover(r, u, c) ==
    CASE c.fault = "exit" -> {<<>>, <<"save_coverage">>}
      [] c.fault = "crash" -> {<<>>}
      [] r \in TestTiers -> {<<"save">>}
      [] run_testspec(u).raised -> {<<>>}
      [] OTHER -> {<<"save_coverage">>}

\* the child process exits
ChildExit ==
    /\ child.state = "running"
    /\ child.fault # "hang"
    /\ child' = [child EXCEPT !.state = "exited"]
    /\ cover' \in child_cover(runner, specs[1], child)
    /\ UNCHANGED <<runner, specs, stop, pool, pipeline, it, yielded, calls, sys_stdout,
                   sys_stderr, start_time, end_time, tier, env, pc, result>>

\* runner.py 224-236, isolated.py 38-54, mpi.py 47-63, test.py 150-160:
\* p.wait() or subprocess.run returns and the parent makes its result.
Wait ==
    /\ pc = "wait"
    /\ child.state = "exited"
    /\ Return
    /\ UNCHANGED <<runner, specs, stop, pool, pipeline, cover, it, yielded, calls, sys_stdout,
                   sys_stderr, start_time, end_time, tier, env, child>>

\* test.py 150-151, 161-167: the timeout of subprocess.run expires, which
\* kills the child and raises TimeoutExpired.
Timeout ==
    /\ pc = "wait"
    /\ child.state = "running"
    /\ timeout_armed(runner, env)
    /\ child' = [child EXCEPT !.state = "killed"]
    /\ pc' = "returned"
    /\ result' = tier_result(runner, [child EXCEPT !.fault = "hang"], env)
    /\ UNCHANGED <<runner, specs, stop, pool, pipeline, cover, it, yielded, calls, sys_stdout,
                   sys_stderr, start_time, end_time, tier, env>>

SubNext ==
    \/ Spawn
    \/ ChildExit
    \/ Wait
    \/ Timeout

SubSpec == SubInit /\ [][SubNext]_vars

\* ------------------------------------ the claims about the other runners
\* runner.py 306-325 with one worker in self.procs: how many specs
\* run_concurrent_tests admits, having admitted k of them.  The one worker
\* returns the results in the order of the stream.
RECURSIVE one_worker_admits(_)
one_worker_admits(k) ==
    IF k = 0
    THEN IF Len(specs) = 0 THEN 0 ELSE one_worker_admits(1)
    ELSE IF stop /\ worker_result(k).status = "FAIL"
    THEN k
    ELSE IF k = Len(specs)
    THEN k
    ELSE one_worker_admits(k + 1)

\* C4: the sequential runner yields the results one by one in the order of
\* the stream, and when it has finished it has run and yielded the specs that
\* the concurrent scheduler admits with one worker: all of them, or with
\* stop-on-failure those up to the first FAIL.
C4_SequentialLikeOneWorker ==
    runner = "sequential" =>
        /\ \A k \in 1..Len(yielded) : yielded[k].spec = k
        /\ pc \in {"done", "raised"} =>
              /\ it = one_worker_admits(0)
              /\ Len(yielded) = it

\* C5: with stop-on-failure, no runner takes a further spec from the stream
\* once it has yielded a FAIL result.
C5_StopInEveryRunner ==
    [][(stop /\ "FAIL" \in Statuses(yielded)) => it' = it]_vars

\* C9: run_testspec returns a TestResult for every spec; no exception leaves it.
C9_LifecycleNeverRaises ==
    /\ pc # "raised"
    /\ pc = "returned" => result.status \in {"OK", "SKIP", "FAIL"}

\* C10: iterating the result stream of a runner never raises, and without
\* stop-on-failure every spec of the stream has its result yielded.
C10_StreamNeverRaises ==
    /\ pc # "raised"
    /\ (pc = "done" /\ ~stop) =>
          /\ Len(yielded) = Len(specs)
          /\ \A i \in 1..Len(specs) : YieldedOnce(i)

\* ------------------------------------ the claims about one lifecycle call
\* C11: a failed setup keeps the body from running.  In run_test a failed
\* setUp means neither the body nor tearDown is called; in Test.run a failed
\* setUpModule or setUpClass means the body is not called, while the teardown
\* of that module or class is still called.
C11_FailedSetupSkipsBody ==
    pc \in {"returned", "raised"} =>
        LET t == specs[1]
            called(name) == \E k \in DOMAIN calls : calls[k] = name
            failed_mod == called("setUpModule") /\ _try_call(t.mod_setup) # "OK"
            failed_tcase == called("setUpClass") /\ _try_call(t.tcase_setup) # "OK"
        IN  /\ (runner = "lifecycle" /\ called("setUp") /\ try_call(t.setup) # "OK") =>
                  ~called("body") /\ ~called("tearDown")
            /\ (runner = "test" /\ tier = "inprocess") =>
                  /\ (failed_mod \/ failed_tcase) => ~called("body")
                  /\ (failed_mod /\ t.mod_teardown # "none") => called("tearDownModule")
                  /\ (failed_tcase /\ t.tcase_teardown # "none") => called("tearDownClass")

C13_UnresolvedFailsAtOnce ==
    (pc # "call" /\ specs[1].res \in {"parse_error", "no_method", "no_func"}) =>
        /\ pc = "returned"
        /\ result.status = "FAIL"
        /\ start_time = end_time
        /\ calls = <<>>

\* C14: when run_testspec or Test.run has returned or raised, sys.stdout and
\* sys.stderr are the objects they were when it was called.
C14_StreamsRestored ==
    pc \in {"returned", "raised"} =>
        /\ sys_stdout = env.stdout
        /\ sys_stderr = env.stderr

\* Test.run was left by the KeyboardInterrupt of the body, raised inside the
\* try block, and run_test by the TypeError of getattr
C14_Witness ==
    /\ pc = "raised"
    /\ calls # <<>> \/ specs[1].res = "function"
    /\ env.stdout = "redirected"
    /\ sys_stdout = "redirected"

C15_UnknownCodeFails ==
    (pc = "returned" /\ child.state = "exited"
        /\ child.returncode \notin {ExitOK, ExitSKIP, ExitFAIL}) =>
        result.status = "FAIL"

\* the child was killed by signal 11 and run_isolated of runner.py made a
\* FAIL of its return code, not of an exception
C15_Witness ==
    /\ runner = "runner_isolated" /\ pc = "returned"
    /\ child.state = "exited" /\ child.returncode = 0 - 11
    /\ result.status = "FAIL" /\ result.times = "clock"

\* C16: the three codes of the table differ, and when the spec ends with
\* status s in a child that nothing disturbs, the child exits with the code
\* of s and the parent's result has status s.
C16_ExitCodeRoundTrip ==
    /\ Cardinality({exit_codes(st) : st \in {"OK", "SKIP", "FAIL"}}) = 3
    /\ (runner \in {"runner_isolated", "isolated", "mpi"}
          /\ child.fault = "none" /\ child.status # "none") =>
          /\ child.returncode = exit_codes(child.status)
          /\ (pc = "returned" /\ env.launcher) => result.status = child.status

\* a skipped spec has come back as SKIP through return code 42
C16_Witness ==
    /\ runner = "isolated" /\ pc = "returned"
    /\ child.fault = "none" /\ child.status = "SKIP"
    /\ child.returncode = ExitSKIP
    /\ result.status = "SKIP"

\* C17: when the child's stderr is empty or no JSON text, the parent takes it
\* for no data: the status is the one of the return code, the error text and
\* the resource data are empty.
C17_BadPayloadIsNoData ==
    (runner \in {"isolated", "mpi"} /\ pc = "returned" /\ child.state = "exited"
        /\ env.launcher /\ child.payload \in {"empty", "text", "broken_json"}) =>
        /\ result.status = status_of(child.returncode)
        /\ result.err_msg = ""
        /\ result.rdata = "empty"

\* C18: no exception leaves the parent, and when Popen raises, the launcher
\* is missing, the payload cannot be decoded or the queue cannot be reached,
\* the result is a FAIL whose times are both 0.
C18_ParentFaultsFail ==
    /\ pc # "raised"
    /\ (/\ pc = "returned"
        /\ \/ child.fault = "spawn"
           \/ ~env.launcher
           \/ ~env.queue
           \/ /\ runner = "isolated" /\ child.state = "exited"
              /\ child.payload \in {"text", "broken_json"}
           \/ /\ runner = "mpi" /\ child.state = "exited"
              /\ child.payload = "broken_json") =>
          /\ result.status = "FAIL"
          /\ result.times = "zero"

\* Test._run_mpi has found no mpirun and returned the FAIL without a child
C18_Witness ==
    /\ runner = "test_mpi" /\ pc = "returned"
    /\ ~env.launcher /\ env.queue
    /\ child.state = "unborn"
    /\ result.status = "FAIL" /\ result.times = "zero"

\* C19: while the parent waits for a child that has not exited, a timeout
\* can expire that kills the child and makes the parent return, and the
\* parent never waits for ever.
C19_TimeoutEnforced ==
    /\ (pc = "wait" /\ child.state = "running") => ENABLED Timeout
    /\ pc # "blocked"

\* ------------------------------------------------------------- filters.py
\* A chain of generators: the source hands out the results of specs, each
\* filter's get_iter wraps the one before it, the consumer iterates the last.
\* One token of control moves along the chain: a next() call travels towards
\* the source, an item or the end of the stream travels towards the consumer.

\* the specs of the results a FailFilter is fed: 1 sorts before 2
SpecNames == {1, 2}

\* Test.elapsed
elapsed(res) == res.end_time - res.start_time

\* the results a TimeFilter is fed; i is the spec
TimedResults(i) ==
    {[spec |-> i, status |-> "OK", start_time |-> 0, end_time |-> e,
      expected_fail |-> FALSE, nprocs |-> 0] : e \in Clock}
    \cup {[spec |-> i, status |-> s, start_time |-> 0, end_time |-> 1,
           expected_fail |-> FALSE, nprocs |-> 0] : s \in {"FAIL", "SKIP"}}

\* the results a FailFilter is fed
FailedResults ==
    {[spec |-> n, status |-> "OK", start_time |-> 0, end_time |-> 1,
      expected_fail |-> FALSE, nprocs |-> 0] : n \in SpecNames}
    \cup {[spec |-> n, status |-> "FAIL", start_time |-> 0, end_time |-> 1,
           expected_fail |-> x[1], nprocs |-> x[2]] :
          n \in SpecNames, x \in {<<FALSE, 0>>, <<TRUE, 0>>, <<FALSE, 2>>}}

\* the results a chain of both filters is fed; i is the spec
ChainResults(i) ==
    {[spec |-> i, status |-> s, start_time |-> 0, end_time |-> 1,
      expected_fail |-> FALSE, nprocs |-> 0] : s \in {"OK", "FAIL"}}

\* a file: absent, or its lines
NoFile == [exists |-> FALSE, lines |-> <<>>]
File(lines) == [exists |-> TRUE, lines |-> lines]
\* what an earlier run left in a file
PriorLine == [spec |-> 0, nprocs |-> 0]
PriorFiles == {NoFile, File(<<PriorLine>>)}

\* print(result.spec, file=f)
time_line(res) == [spec |-> res.spec, nprocs |-> 0]

\* the line FailFilter prints: the spec, annotated when nprocs > 1
fail_line(res) ==
    IF res.nprocs > 1 THEN [spec |-> res.spec, nprocs |-> res.nprocs]
    ELSE [spec |-> res.spec, nprocs |-> 0]

\* TimeFilter's condition for printing a result
time_keeps_any_status(res, max_time) == elapsed(res) <= max_time
time_keeps(res, max_time) == res.status = "OK" /\ elapsed(res) <= max_time

\* open(self.outfile, 'w'): the file exists and is empty
open_w(f) == File(<<>>)
\* open(self.outfile, 'a'): the file exists, its lines are kept
open_a(f) == File(f.lines)
\* os.remove(self.outfile), OSError passed over
remove_keeps(f) == f
remove(f) == NoFile
\* leaving "with open(...) as f": what was printed reaches the file
with_exit_keeps_open(f, buf) == f
with_exit(f, buf) == File(f.lines \o buf)

\* a generator not yet started
NewStage(name) == [name |-> name, pc |-> "new", buf |-> <<>>, got |-> 0, put |-> 0]

Chains == {<<"time">>, <<"fail">>, <<"time", "fail">>, <<"fail", "time">>}

\* the results fed to chain c; the i-th one
ResultsAt(c, i) ==
    IF c = <<"time">> THEN TimedResults(i)
    ELSE IF c = <<"fail">> THEN FailedResults
    ELSE ChainResults(i)

\* the streams of length 0..MaxSpecs fed to chain c
PipeStreams(c) ==
    UNION {{q \in [1..n -> UNION {ResultsAt(c, i) : i \in 1..n}] :
                \A i \in 1..n : q[i] \in ResultsAt(c, i)}
           : n \in 0..MaxSpecs}

Consumer == Len(stages) + 1

PipeInit ==
    /\ runner = "filters"
    /\ \E c \in Chains :
          /\ stages = [k \in 1..Len(c) |-> NewStage(c[k])]
          /\ specs \in PipeStreams(c)
          /\ outfile \in [time : IF "time" \in {c[k] : k \in 1..Len(c)}
                                 THEN PriorFiles ELSE {NoFile},
                          fail : IF "fail" \in {c[k] : k \in 1..Len(c)}
                                 THEN PriorFiles ELSE {NoFile}]
          /\ active = Len(c) + 1
    /\ env \in [max_time : Clock]
    /\ signal = "none"
    /\ stop = FALSE
    /\ num_procs = 1
    /\ it = 0
    /\ task_queue = <<>>
    /\ done_queue = <<>>
    /\ numtests = 0
    /\ pc = "pull"
    /\ idx = 0
    /\ result = NoResult
    /\ yielded = <<>>
    /\ wpc = <<>>
    /\ wtask = <<>>
    /\ putLog = <<>>
    /\ calls = <<>>
    /\ sys_stdout = "stdout"
    /\ sys_stderr = "stderr"
    /\ start_time = 0
    /\ end_time = 0
    /\ tier = "none"
    /\ child = "none"
    /\ cover = <<>>

\* the consumer's for loop asks the last filter for the next result
ConsumerPull ==
    /\ runner = "filters"
    /\ active = Consumer
    /\ pc = "pull"
    /\ pc' = "wait"
    /\ active' = active - 1
    /\ signal' = "next"
    /\ UNCHANGED <<config, pool, it, result, yielded, lifecycle, stages, outfile, cover>>

\* the consumer is handed a result
ConsumerReceive ==
    /\ runner = "filters"
    /\ active = Consumer
    /\ signal = "item"
    /\ yielded' = Append(yielded, result)
    /\ pc' = "pull"
    /\ signal' = "none"
    /\ UNCHANGED <<config, pool, it, result, lifecycle, stages, outfile, active, cover>>

\* the consumer's for loop ends
ConsumerEnd ==
    /\ runner = "filters"
    /\ active = Consumer
    /\ signal = "end"
    /\ pc' = "done"
    /\ signal' = "none"
    /\ UNCHANGED <<config, pool, it, result, yielded, lifecycle, stages, outfile, active, cover>>

\* the source yields its next result, or ends
SourceNext ==
    /\ runner = "filters"
    /\ active = 0
    /\ signal = "next"
    /\ active' = 1
    /\ IF it < Len(specs)
       THEN /\ it' = it + 1
            /\ result' = specs[it + 1]
            /\ signal' = "item"
       ELSE /\ signal' = "end"
            /\ UNCHANGED <<it, result>>
    /\ UNCHANGED <<config, pool, pc, yielded, lifecycle, stages, outfile, cover>>

\* next() on a filter's generator: a new generator runs up to its for loop,
\* a suspended one resumes after its yield; both ask upstream for a result
StageNext(k) ==
    /\ runner = "filters"
    /\ active = k
    /\ signal = "next"
    /\ stages[k].pc \in {"new", "yield"}
    /\ outfile' = IF stages[k].pc = "yield" THEN outfile
                  ELSE IF stages[k].name = "time"
                  THEN [outfile EXCEPT !.time = open_w(@)]
                  ELSE [outfile EXCEPT !.fail = remove(@)]
    /\ stages' = [stages EXCEPT ![k].pc = "wait"]
    /\ active' = k - 1
    /\ UNCHANGED <<config, pool, pc, it, result, yielded, lifecycle, signal, cover>>

\* the for loop of a filter binds the next result and runs the loop body up
\* to the yield
StageReceive(k) ==
    /\ runner = "filters"
    /\ active = k
    /\ signal = "item"
    /\ stages[k].pc = "wait"
    /\ IF stages[k].name = "time"
       THEN /\ stages' = [stages EXCEPT
                  ![k].pc = "hold",
                  ![k].got = @ + 1,
                  ![k].buf = IF time_keeps(result, env.max_time)
                             THEN Append(@, time_line(result)) ELSE @]
            /\ UNCHANGED outfile
       ELSE /\ stages' = [stages EXCEPT ![k].pc = "hold", ![k].got = @ + 1]
            /\ outfile' = IF result.status = "FAIL" /\ ~result.expected_fail
                          THEN [outfile EXCEPT
                                  !.fail = with_exit(open_a(@), <<fail_line(result)>>)]
                          ELSE outfile
    /\ signal' = "none"
    /\ UNCHANGED <<config, pool, pc, it, result, yielded, lifecycle, active, cover>>

\* yield result
StageYield(k) ==
    /\ runner = "filters"
    /\ active = k
    /\ stages[k].pc = "hold"
    /\ stages' = [stages EXCEPT ![k].pc = "yield", ![k].put = @ + 1]
    /\ active' = k + 1
    /\ signal' = "item"
    /\ UNCHANGED <<config, pool, pc, it, result, yielded, lifecycle, outfile, cover>>

\* the upstream ended: the for loop ends, TimeFilter leaves its with block,
\* the generator returns
StageEnd(k) ==
    /\ runner = "filters"
    /\ active = k
    /\ signal = "end"
    /\ stages[k].pc = "wait"
    /\ outfile' = IF stages[k].name = "time"
                  THEN [outfile EXCEPT !.time = with_exit(@, stages[k].buf)]
                  ELSE outfile
    /\ stages' = [stages EXCEPT ![k].pc = "done", ![k].buf = <<>>]
    /\ active' = k + 1
    /\ UNCHANGED <<config, pool, pc, it, result, yielded, lifecycle, signal, cover>>

PipeNext ==
    \/ ConsumerPull
    \/ ConsumerReceive
    \/ ConsumerEnd
    \/ SourceNext
    \/ \E k \in 1..Len(stages) : StageNext(k)
    \/ \E k \in 1..Len(stages) : StageReceive(k)
    \/ \E k \in 1..Len(stages) : StageYield(k)
    \/ \E k \in 1..Len(stages) : StageEnd(k)

PipeSpec == PipeInit /\ [][PipeNext]_vars

\* ----------------------------------------------------- claims on filters.py
HasStage(name) == \E k \in 1..Len(stages) : stages[k].name = name
Started(name) == \E k \in 1..Len(stages) : stages[k].name = name /\ stages[k].pc # "new"
SpecsOf(q) == [i \in 1..Len(q) |-> q[i].spec]
IsPrefix(p, q) == Len(p) <= Len(q) /\ \A i \in 1..Len(p) : p[i] = q[i]
IsQuick(res) == res.status = "OK" /\ res.end_time - res.start_time <= env.max_time
IsUnexpectedFail(res) == res.status = "FAIL" /\ ~res.expected_fail

\* C21: a TimeFilter run to completion leaves an output list holding exactly
\* the specs of the results with status OK and elapsed time at most the
\* threshold, in arrival order and without any earlier content, and hands
\* every result on unchanged and in order.
C21_TimeFilter ==
    (runner = "filters" /\ HasStage("time")) =>
        /\ IsPrefix(yielded, specs)
        /\ pc = "done" =>
              /\ yielded = specs
              /\ outfile.time.exists
              /\ SpecsOf(outfile.time.lines) = SpecsOf(SelectSeq(specs, IsQuick))
              /\ \A i \in 1..Len(outfile.time.lines) : outfile.time.lines[i].nprocs = 0

C21_Witness ==
    /\ runner = "filters"
    /\ pc = "done"
    /\ Len(stages) = 1
    /\ stages[1].name = "time"
    /\ Len(specs) = 3
    /\ IsQuick(specs[1])
    /\ specs[2].status = "FAIL" /\ elapsed(specs[2]) <= env.max_time
    /\ specs[3].status = "OK" /\ elapsed(specs[3]) > env.max_time
    /\ SpecsOf(outfile.time.lines) = <<1>>

C23_Holds ==
    /\ \A k \in 1..Len(stages) : stages[k].got - stages[k].put \in {0, 1}
    /\ it - Len(yielded) \in {0, 1}
    /\ HasStage("fail") =>
          LET seen == SelectSeq(yielded, IsUnexpectedFail)
          IN  /\ Len(seen) > 0 => Len(outfile.fail.lines) >= Len(seen)
              /\ \A j \in 1..Len(seen) :
                    j <= Len(outfile.fail.lines) => outfile.fail.lines[j].spec = seen[j].spec

\* a stage asks upstream only when it has emitted all it was given, and the
\* source hands out a result only when the consumer has the ones before it
C23_Pulls ==
    /\ \A k \in 1..Len(stages) :
          (stages[k].pc # "wait" /\ stages'[k].pc = "wait") =>
              stages[k].got = stages[k].put
    /\ it' # it => (it' = it + 1 /\ Len(yielded) = it)
    /\ yielded' # yielded =>
          /\ yielded' = Append(yielded, specs[Len(yielded) + 1])
          /\ \A k \in 1..Len(stages) : stages[k].put = Len(yielded')

\* C23: in a chain of the source and the two filters in either order, a stage
\* asks upstream for result k+1 only after it has emitted result k, holds at
\* most one result at a time, the consumer receives each result before the
\* next is pulled from the source, and the failure-list line of a FAIL result
\* is in the list when that result reaches the consumer.
C23_Streaming ==
    [](runner = "filters" => C23_Holds) /\ [][runner = "filters" => C23_Pulls]_vars

C23_Witness ==
    /\ runner = "filters"
    /\ Len(stages) = 2
    /\ stages[1].name = "time"
    /\ active = 0
    /\ signal = "next"
    /\ it = 1
    /\ Len(yielded) = 1
    /\ IsUnexpectedFail(yielded[1])
    /\ SpecsOf(outfile.fail.lines) = <<1>>

\* C24: the specs FailFilter writes are sorted, whatever the order in which
\* the failures arrive.
C24_FailListSorted ==
    (runner = "filters" /\ HasStage("fail")) =>
        \A i, j \in 1..Len(outfile.fail.lines) :
            i < j => outfile.fail.lines[i].spec <= outfile.fail.lines[j].spec

\* ------------------------------------------------------ claims on coverage
CountOf(q, S) == Cardinality({i \in 1..Len(q) : q[i] \in S})

\* C25: coverage collection is begun immediately before the body of a unit
\* and ended and persisted immediately after it on every outcome: when
\* Test.run returns, every begin has been matched by an end or a persist.
C25_CoverageBracketed ==
    (runner = "test" /\ pc = "returned") =>
        CountOf(cover, {"start_coverage"})
            = CountOf(cover, {"stop_coverage", "save_coverage", "save"})

\* ------------------------------------------ further claims on the scheduler
\* the specs whose result the coordinator has not yet received
NotReceived == Len(specs) - Received

\* C26: with stop-on-failure disabled, whenever the coordinator is blocked
\* waiting for the next result (in the while loop or in the drain loop), the
\* number of tasks in flight is min(num_procs, number of specs whose result
\* has not yet been received).
C26_WorkConserving ==
    (runner = "concurrent" /\ ~stop /\ pc \in {"get", "drain_get"}) =>
        InFlight = (IF num_procs <= NotReceived THEN num_procs ELSE NotReceived)

C26_Witness ==
    /\ runner = "concurrent" /\ ~stop
    /\ pc = "get"
    /\ Received > 0
    /\ InFlight = num_procs
    /\ NotReceived = num_procs

QueuedCount(i) ==
    Cardinality({k \in 1..Len(task_queue) : ~task_queue[k].stop /\ task_queue[k].spec = i})
RunCount(i) == Cardinality({w \in Procs : wpc[w] = "run" /\ wtask[w] = i})
PutCount(i) == Cardinality({k \in 1..Len(putLog) : putLog[k].spec = i})

\* every admitted spec is in exactly one place: on the task queue, with one
\* worker, or answered by one result; at the end every one is answered
C27_OnePlace ==
    runner = "concurrent" =>
        /\ \A i \in 1..Len(specs) :
              QueuedCount(i) + RunCount(i) + PutCount(i) = (IF i <= it THEN 1 ELSE 0)
        /\ pc = "done" => \A i \in 1..it : PutCount(i) = 1

\* a worker that starts a run has taken the head of the task queue off it
C27_Takes ==
    \A w \in Procs :
        (wpc[w] = "get" /\ wpc'[w] = "run") =>
            /\ ~Head(task_queue).stop
            /\ wtask'[w] = Head(task_queue).spec
            /\ task_queue' = Tail(task_queue)
            /\ \A v \in Procs \ {w} : wtask'[v] # wtask'[w]

\* C27: every spec put on the task queue is taken by exactly one worker, run
\* exactly once and answered by exactly one result carrying that spec on the
\* done queue, in every interleaving of the workers.
C27_ExactlyOnce ==
    []C27_OnePlace /\ [][runner = "concurrent" => C27_Takes]_vars

C27_Witness ==
    /\ runner = "concurrent"
    /\ Cardinality(Running) = 2
    /\ \E k \in 1..Len(putLog) : putLog[k].spec = 2
    /\ PutCount(1) = 0

\* no spec waits behind a STOP, and the finished scheduler leaves both queues
\* empty
C28_Queues ==
    runner = "concurrent" =>
        /\ \A j, k \in 1..Len(task_queue) :
              (j < k /\ task_queue[j].stop) => task_queue[k].stop
        /\ StopsSent <= num_procs
        /\ pc = "done" => (task_queue = <<>> /\ done_queue = <<>>)

\* once a STOP has been put no spec is admitted; a worker exits by taking one
\* STOP off a queue on which no spec waits, and a STOP leaves the queue only
\* so; a worker that has exited stays so
C28_Steps ==
    /\ StopsSent > 0 => it' = it
    /\ \A w \in Procs :
          /\ (wpc[w] # "exited" /\ wpc'[w] = "exited") =>
                /\ QueuedSpecs(task_queue) = {}
                /\ Head(task_queue).stop
                /\ task_queue' = Tail(task_queue)
          /\ wpc[w] = "exited" => wpc'[w] = "exited"
    /\ StopsSent' >= StopsSent

\* C28: the STOP sentinels are put on the task queue only after the last
\* admitted spec, each worker consumes exactly one of them, no worker exits
\* while an admitted spec waits on the task queue, and when the scheduler has
\* returned both queues are empty.
C28_OrderlyShutdown ==
    []C28_Queues /\ [][runner = "concurrent" => C28_Steps]_vars

C28_Witness ==
    /\ runner = "concurrent"
    /\ \E j, k \in 1..Len(task_queue) :
          j < k /\ ~task_queue[j].stop /\ task_queue[k].stop
    /\ Len(putLog) > 0

\* runner.py 133-137: what get_iter yields for the stream: the result of each
\* spec up to the first on which run_testspec raises
RECURSIVE get_iter_yields(_)
get_iter_yields(i) ==
    IF i > Len(specs) \/ get_iter_body(i, specs[i]).raised
    THEN <<>>
    ELSE <<get_iter_body(i, specs[i]).result>> \o get_iter_yields(i + 1)

PairsOf(q) == [k \in 1..Len(q) |-> <<q[k].spec, q[k].status>>]
SameBag(a, b) ==
    /\ Len(a) = Len(b)
    /\ \A k \in 1..Len(a) :
          Cardinality({j \in 1..Len(a) : a[j] = a[k]})
              = Cardinality({j \in 1..Len(b) : b[j] = a[k]})

\* C30: with stop-on-failure disabled the concurrent scheduler with two or
\* more workers and the sequential runner produce, for the same stream, the
\* same multiset of (spec, status) pairs.
C30_SameResults ==
    (runner = "concurrent" /\ ~stop /\ num_procs >= 2 /\ pc = "done") =>
        SameBag(PairsOf(yielded), PairsOf(get_iter_yields(1)))

\* ------------------------------------ successive runs sharing a result queue
\* Test._run_subproc called for one spec after another with the same queue:
\* the child (isolatedrun.py) puts its Test on the queue in its finally
\* clause and then saves coverage and exits; the parent takes an item off the
\* queue only when the child ended with return code 0.

\* The children: one that puts its Test and exits with 0; one that puts and
\* then exits with another code (cov.save() raises, or Test(...) raised and
\* the except clause fails on test = None); one that puts and then does not
\* exit; one that dies before the put; one that hangs before the put.
QueueChildren ==
    {[puts |-> TRUE, status |-> st, returncode |-> 0, hangs |-> FALSE] : st \in {"OK", "FAIL"}}
    \cup {[puts |-> TRUE, status |-> "FAIL", returncode |-> 1, hangs |-> FALSE],
          [puts |-> TRUE, status |-> "OK", returncode |-> 0, hangs |-> TRUE],
          [puts |-> FALSE, status |-> "none", returncode |-> 1, hangs |-> FALSE],
          [puts |-> FALSE, status |-> "none", returncode |-> 0, hangs |-> TRUE]}

NoChild == [state |-> "unborn", put |-> FALSE]

\* the state every action of these runs leaves alone
queue_frame ==
    <<config, workers, pipeline, cover, task_queue, numtests, idx, putLog, calls,
      sys_stdout, sys_stderr, start_time, end_time, tier, env>>

QueueInit ==
    /\ runner = "subproc_queue"
    /\ specs \in Streams(QueueChildren)
    /\ stop = FALSE
    /\ num_procs = 1
    /\ it = 0
    /\ task_queue = <<>>
    /\ done_queue = <<>>
    /\ numtests = 0
    /\ pc = "launch"
    /\ idx = 0
    /\ result = NoResult
    /\ yielded = <<>>
    /\ wpc = <<>>
    /\ wtask = <<>>
    /\ putLog = <<>>
    /\ calls = <<>>
    /\ sys_stdout = "stdout"
    /\ sys_stderr = "stderr"
    /\ start_time = 0
    /\ end_time = 0
    /\ tier = "none"
    /\ stages = <<>>
    /\ outfile = "none"
    /\ active = 0
    /\ signal = "none"
    /\ cover = <<>>
    /\ child = NoChild
    /\ env = "none"

\* test.py 150: subprocess.run starts the child of the next spec
SubprocLaunch ==
    /\ runner = "subproc_queue"
    /\ pc = "launch"
    /\ it < Len(specs)
    /\ it' = it + 1
    /\ child' = [state |-> "running", put |-> FALSE]
    /\ pc' = "wait"
    /\ UNCHANGED <<queue_frame, done_queue, result, yielded>>

\* the last run has returned
SubprocFinish ==
    /\ runner = "subproc_queue"
    /\ pc = "launch"
    /\ it = Len(specs)
    /\ pc' = "done"
    /\ UNCHANGED <<queue_frame, it, child, done_queue, result, yielded>>

\* isolatedrun.py 40: queue.put(test)
IsolatedrunPut ==
    /\ runner = "subproc_queue"
    /\ child.state = "running"
    /\ ~child.put
    /\ specs[it].puts
    /\ done_queue' = Append(done_queue, TestResult(it, "clock", specs[it].status))
    /\ child' = [child EXCEPT !.put = TRUE]
    /\ UNCHANGED <<queue_frame, it, pc, result, yielded>>

\* isolatedrun.py 42-43 and the end of the script: the child exits
IsolatedrunExit ==
    /\ runner = "subproc_queue"
    /\ child.state = "running"
    /\ ~specs[it].hangs
    /\ specs[it].puts => child.put
    /\ child' = [child EXCEPT !.state = "exited"]
    /\ UNCHANGED <<queue_frame, it, pc, done_queue, result, yielded>>

\* what _run_subproc returns goes to the caller, and the next spec is run
subproc_returns(res, queue) ==
    /\ result' = res
    /\ yielded' = Append(yielded, res)
    /\ done_queue' = queue
    /\ pc' = "launch"

\* test.py 150-151, 161-167: the timeout expires, subprocess.run kills the
\* child and raises TimeoutExpired: result = self with status FAIL
SubprocTimeout ==
    /\ runner = "subproc_queue"
    /\ pc = "wait"
    /\ child.state = "running"
    /\ child' = [child EXCEPT !.state = "killed"]
    /\ subproc_returns(TestResult(it, "zero", "FAIL"), done_queue)
    /\ UNCHANGED <<queue_frame, it>>

\* test.py 153-160, 169: the child has exited: result = self with status FAIL
\* for a return code other than 0, else result = queue.get()
SubprocReturn ==
    /\ runner = "subproc_queue"
    /\ pc = "wait"
    /\ child.state = "exited"
    /\ IF specs[it].returncode # 0
       THEN subproc_returns(TestResult(it, "zero", "FAIL"), done_queue)
       ELSE /\ done_queue # <<>>
            /\ subproc_returns(Head(done_queue), Tail(done_queue))
    /\ UNCHANGED <<queue_frame, it, child>>

QueueNext ==
    \/ SubprocLaunch
    \/ SubprocFinish
    \/ IsolatedrunPut
    \/ IsolatedrunExit
    \/ SubprocTimeout
    \/ SubprocReturn

QueueSpec == QueueInit /\ [][QueueNext]_vars

\* C29: when successive runs share one result queue, the result that
\* _run_subproc returns for a spec is the one produced for that spec (by its
\* child, or the parent's own FAIL), never an item an earlier child left on
\* the queue, and the queue holds no leftover item after a run.
C29_OwnResult ==
    runner = "subproc_queue" =>
        /\ \A k \in 1..Len(yielded) : yielded[k].spec = k
        /\ pc \in {"launch", "done"} => done_queue = <<>>

====
